---- MODULE Spec2Model ----
(***************************************************************************)
(* Model of the monitoring store of stage1_cifar10/monitoring.py           *)
(* (class ModelMonitor) and of the callers in stage1_cifar10/app.py.       *)
(*                                                                         *)
(* Numbers.  Confidences, processing times and the drift threshold are     *)
(* Python floats.  They are modelled exactly, as integers counted in       *)
(* units of 1/Scale (tenths), and np.mean as an exact rational in lowest   *)
(* terms, so that "strictly greater than the threshold" is decided         *)
(* exactly.                                                                *)
(*                                                                         *)
(* Optional values.  Python's None is the empty sequence <<>> and a        *)
(* present value x is <<x>>.                                               *)
(*                                                                         *)
(* Dicts.  A Python dict keeps insertion order, and detect_drift iterates  *)
(* over one: a dict is a sequence of [key, count] entries in insertion     *)
(* order.                                                                  *)
(***************************************************************************)
EXTENDS Integers, Sequences, FiniteSets, TLC

\* ---------------------------------------------------------------- numbers
Scale == 10
drift_threshold == 1
MinRecords == 50
RecentWindow == 100
MaxErrors == 10

\* ----------------------------------------------------------------- bounds
\* Capacity of the small window (ModelMonitor(window_size = SmallWindow)).
SmallWindow == 3
\* Calls made by the threads after the warm-up.
MaxCalls == 3

Threads == {1, 2}
None == <<>>
Some(x) == <<x>>

Abs(x) == IF x < 0 THEN -x ELSE x
Min(a, b) == IF a < b THEN a ELSE b
Max(a, b) == IF a > b THEN a ELSE b

RECURSIVE GCD(_, _)
GCD(a, b) == IF b = 0 THEN a ELSE GCD(b, a % b)

\* The rational n/d (d > 0) in lowest terms.
Rat(n, d) == LET g == GCD(Abs(n), d) IN [n |-> n \div g, d |-> d \div g]
Zero == Rat(0, 1)

\* sum(s), by halves (the recursion is then only log(Len(s)) deep).
RECURSIVE SumRange(_, _, _)
SumRange(s, lo, hi) ==
    IF lo > hi THEN 0
    ELSE IF lo = hi THEN s[lo]
    ELSE LET mid == (lo + hi) \div 2
         IN  SumRange(s, lo, mid) + SumRange(s, mid + 1, hi)
Sum(s) == SumRange(s, 1, Len(s))

\* np.mean: nan for the empty list, and every comparison with nan is false
\* (AbsDiffExceeds is 0 > 0 when a denominator is 0).
NaN == [n |-> 0, d |-> 0]
Mean(s) == IF s = <<>> THEN NaN ELSE Rat(Sum(s), Len(s))

\* abs(a - b) > threshold, a and b rationals in units of 1/Scale.
AbsDiffExceeds(a, b, threshold) ==
    Abs(a.n * b.d - b.n * a.d) > threshold * a.d * b.d

\* list(xs)[-n:]
LastN(xs, n) == SubSeq(xs, Max(1, Len(xs) - n + 1), Len(xs))


\* (mutant) a list: append never drops an entry.
DequeAppendUnbounded(dq, x, maxlen) == Append(dq, x)

\* (mutant) a full window is emptied before the new entry is appended.
DequeAppendClearing(dq, x, maxlen) == IF Len(dq) >= maxlen THEN <<x>> ELSE Append(dq, x)

\* deque(maxlen = maxlen).append(x): the oldest entry is dropped when full.
DequeAppend(dq, x, maxlen) ==
    LET a == Append(dq, x)
    IN  IF Len(a) > maxlen THEN SubSeq(a, Len(a) - maxlen + 1, Len(a)) ELSE a

\* ------------------------------------------------------------------ dicts
Keys(dict) == {dict[i].key : i \in 1..Len(dict)}
IndexOf(dict, key) == CHOOSE i \in 1..Len(dict) : dict[i].key = key
\* dict.get(key, 0)
Get(dict, key) == IF key \in Keys(dict) THEN dict[IndexOf(dict, key)].count ELSE 0
\* defaultdict(int): dict[key] += 1
Inc(dict, key) ==
    IF key \in Keys(dict)
    THEN [dict EXCEPT ![IndexOf(dict, key)].count = @ + 1]
    ELSE Append(dict, [key |-> key, count |-> 1])
\* sum(dict.values())
SumValues(dict) == Sum([i \in 1..Len(dict) |-> dict[i].count])

\* ------------------------------------------------- PredictionRecord values
\* What the callers hand to record_prediction, without the timestamp:
\* the successful path of /predict (two classes, three confidences), its
\* 503 and 500 paths, and a failed record built with the dataclass default
\* error_message = None.
Cat9 == [predicted_class |-> "cat", confidence |-> 9, processing_time |-> 1,
         input_size |-> <<32, 32>>, success |-> TRUE, error_message |-> None]
Dog5 == [predicted_class |-> "dog", confidence |-> 5, processing_time |-> 3,
         input_size |-> <<32, 32>>, success |-> TRUE, error_message |-> None]
Cat4 == [predicted_class |-> "cat", confidence |-> 4, processing_time |-> 2,
         input_size |-> <<32, 32>>, success |-> TRUE, error_message |-> None]
Fail503 == [predicted_class |-> "unknown", confidence |-> 0, processing_time |-> 0,
            input_size |-> <<0, 0>>, success |-> FALSE,
            error_message |-> Some("Model not loaded")]
Fail500 == [predicted_class |-> "unknown", confidence |-> 0, processing_time |-> 1,
            input_size |-> <<0, 0>>, success |-> FALSE,
            error_message |-> Some("cannot identify image file")]
FailNone == [predicted_class |-> "unknown", confidence |-> 0, processing_time |-> 1,
             input_size |-> <<0, 0>>, success |-> FALSE, error_message |-> None]

\* app.py /predict: the status each of its three paths responds with and the
\* record it hands to record_prediction first (lines 142-152, 174-188 and
\* 190-203).
NotLoadedPath == [status |-> 503, record |-> Fail503]
SuccessPath(input) == [status |-> 200, record |-> input]
\* (mutant) the exception path leaves error_message at its default.
ExceptionPathWithoutMessage == [status |-> 500, record |-> FailNone]
ExceptionPath == [status |-> 500, record |-> Fail500]
PredictPaths == {NotLoadedPath, ExceptionPath} \cup {SuccessPath(Cat9), SuccessPath(Dog5),
                                                     SuccessPath(Cat4)}
\* The status /predict responds with after handing over the record input; 0
\* for a record that another caller hands to record_prediction.
StatusOf(input) ==
    IF \E path \in PredictPaths : path.record = input
    THEN (CHOOSE path \in PredictPaths : path.record = input).status
    ELSE 0

\* PredictionRecord(timestamp = now, ...)
PredictionRecord(input, now) ==
    [timestamp |-> now, predicted_class |-> input.predicted_class,
     confidence |-> input.confidence, processing_time |-> input.processing_time,
     input_size |-> input.input_size, success |-> input.success,
     error_message |-> input.error_message]

\* ------------------------------------------------------ ModelMetrics values
\* ModelMetrics(): the dataclass defaults after __post_init__.
EmptyMetrics ==
    [total_predictions |-> 0, successful_predictions |-> 0, failed_predictions |-> 0,
     avg_confidence |-> Zero, avg_processing_time |-> Zero,
     class_distribution |-> <<>>, recent_errors |-> <<>>]

\* The loop "for pred in predictions: dist[pred.predicted_class] += 1" on an
\* empty defaultdict(int): the keys come in the order of their first
\* occurrence, each with the number of its occurrences.
RECURSIVE Ascending(_)
Ascending(S) ==
    IF S = {} THEN <<>>
    ELSE LET least == CHOOSE x \in S : \A y \in S : x <= y
         IN  <<least>> \o Ascending(S \ {least})
ClassCounts(predictions) ==
    LET n == Len(predictions)
        first == Ascending({i \in 1..n : \A j \in 1..(i - 1) :
                     predictions[j].predicted_class # predictions[i].predicted_class})
    IN  [k \in 1..Len(first) |->
            [key |-> predictions[first[k]].predicted_class,
             count |-> Cardinality({j \in 1..n : predictions[j].predicted_class
                                      = predictions[first[k]].predicted_class})]]

IsSuccess(p) == p.success
IsFailure(p) == ~p.success
\* Python truth of an Optional[str]: None and "" are false.
Truthy(message) == message # None /\ message # Some("")
HasMessage(p) == Truthy(p.error_message)
\* [p.confidence for p in predictions]
Confidences(predictions) == [i \in 1..Len(predictions) |-> predictions[i].confidence]
\* [p.processing_time for p in predictions]
ProcessingTimes(predictions) ==
    [i \in 1..Len(predictions) |-> predictions[i].processing_time]
\* [p.error_message for p in predictions]
Messages(predictions) == [i \in 1..Len(predictions) |-> predictions[i].error_message[1]]

\* [p.error_message for p in failed[-10:] if p.error_message]
RecentErrors(failed) == Messages(SelectSeq(LastN(failed, MaxErrors), HasMessage))

\* (mutant) avg_confidence taken over all records, failed ones included.
GetMetricsOfAllRecords(predictions) ==
    IF predictions = <<>> THEN EmptyMetrics
    ELSE LET successful == SelectSeq(predictions, IsSuccess)
             failed == SelectSeq(predictions, IsFailure)
         IN  [total_predictions |-> Len(predictions),
              successful_predictions |-> Len(successful),
              failed_predictions |-> Len(failed),
              avg_confidence |-> Mean(Confidences(predictions)),
              avg_processing_time |-> Mean(ProcessingTimes(predictions)),
              class_distribution |-> ClassCounts(predictions),
              recent_errors |-> RecentErrors(failed)]

\* The body of get_metrics, on the list of the window's records.
GetMetricsOf(predictions) ==
    IF predictions = <<>> THEN EmptyMetrics
    ELSE LET successful == SelectSeq(predictions, IsSuccess)
             failed == SelectSeq(predictions, IsFailure)
         IN  [total_predictions |-> Len(predictions),
              successful_predictions |-> Len(successful),
              failed_predictions |-> Len(failed),
              avg_confidence |->
                  IF successful # <<>> THEN Mean(Confidences(successful))
                  ELSE Zero,
              avg_processing_time |-> Mean(ProcessingTimes(predictions)),
              class_distribution |-> ClassCounts(predictions),
              recent_errors |-> RecentErrors(failed)]

\* ------------------------------------------------------- Prometheus metrics
\* PREDICTION_COUNTER (labels class, status), ERROR_COUNTER, and the count and
\* sum of CONFIDENCE_HISTOGRAM and PREDICTION_DURATION.
EmptyRegistry ==
    [predictions |-> <<>>, errors |-> 0,
     confidence |-> [count |-> 0, sum |-> 0], duration |-> [count |-> 0, sum |-> 0]]
Observe(histogram, x) == [count |-> histogram.count + 1, sum |-> histogram.sum + x]
\* The metric updates of record_prediction.  Lines 83 and 85 pass the label as
\* the keyword argument class=..., which Python rejects when it compiles the
\* file; the model takes the call as labelling the counter with the
\* predicted class and the status, which is what the label names declare.
UpdatePrometheus(registry, prediction) ==
    [predictions |->
        Inc(registry.predictions,
            <<prediction.predicted_class,
              IF prediction.success THEN "success" ELSE "error">>),
     errors |-> IF prediction.success THEN registry.errors ELSE registry.errors + 1,
     confidence |-> Observe(registry.confidence, prediction.confidence),
     duration |-> Observe(registry.duration, prediction.processing_time)]

\* ------------------------------------------------------------ detect_drift
\* (mutant) the whole window instead of its last 100 entries.
RecentOfWholeWindow(xs) == xs
\* list(xs)[-100:]
RecentOf(xs) == LastN(xs, RecentWindow)
\* (mutant) off by one: 49 records are taken to be enough.
InsufficientDataOffByOne(history) == Len(history) < MinRecords - 1
\* len(self.predictions_history) < 50
InsufficientData(history) == Len(history) < MinRecords
InsufficientResult == [drift_detected |-> FALSE, reason |-> "Insufficient data"]

\* (mutant) a missing baseline read as an average of 0.0.
ConfidenceDriftDefaultBaseline(avg, baseline) ==
    AbsDiffExceeds(avg, IF baseline = None THEN Zero ELSE baseline[1].avg_confidence,
                   drift_threshold)
\* self.baseline_metrics and abs(avg - baseline.avg_confidence) > threshold
ConfidenceDrift(avg, baseline) ==
    /\ baseline # None
    /\ AbsDiffExceeds(avg, baseline[1].avg_confidence, drift_threshold)
\* self.baseline_metrics and abs(avg - baseline.avg_processing_time) > threshold
ProcessingDrift(avg, baseline) ==
    /\ baseline # None
    /\ AbsDiffExceeds(avg, baseline[1].avg_processing_time, drift_threshold)
\* self.baseline_metrics and self.baseline_metrics.class_distribution
ClassGuard(baseline) == baseline # None /\ baseline[1].class_distribution # <<>>
\* (mutant) >= in place of >.
RatioDriftAtThreshold(baseline_count, baseline_total, recent_count, recent_total) ==
    Scale * Abs(baseline_count * recent_total - recent_count * baseline_total)
        >= drift_threshold * baseline_total * recent_total
\* abs(baseline_count / baseline_total - recent_count / recent_total) > threshold
RatioDrift(baseline_count, baseline_total, recent_count, recent_total) ==
    Scale * Abs(baseline_count * recent_total - recent_count * baseline_total)
        > drift_threshold * baseline_total * recent_total

\* (mutant) class_drift left out of drift_detected.
DriftReportWithoutClassDrift(l, baseline, now) ==
    [drift_detected |-> l.confidence_drift \/ l.processing_drift,
     confidence_drift |-> l.confidence_drift,
     processing_drift |-> l.processing_drift,
     class_drift |-> l.class_drift,
     current_avg_confidence |-> l.avg_confidence,
     current_avg_processing_time |-> l.avg_processing_time,
     baseline_avg_confidence |-> l.baseline_avg_confidence,
     baseline_avg_processing_time |->
        IF baseline # None THEN Some(baseline[1].avg_processing_time) ELSE None,
     timestamp |-> now]

\* (mutant) the baseline averages left out when no baseline is set.
DriftReportOmittingNulls(l, baseline, now) ==
    LET report ==
            [drift_detected |-> l.confidence_drift \/ l.processing_drift \/ l.class_drift,
             confidence_drift |-> l.confidence_drift,
             processing_drift |-> l.processing_drift,
             class_drift |-> l.class_drift,
             current_avg_confidence |-> l.avg_confidence,
             current_avg_processing_time |-> l.avg_processing_time,
             timestamp |-> now]
    IN  IF baseline = None THEN report
        ELSE [key \in DOMAIN report \cup {"baseline_avg_confidence",
                                          "baseline_avg_processing_time"} |->
                 IF key = "baseline_avg_confidence" THEN l.baseline_avg_confidence
                 ELSE IF key = "baseline_avg_processing_time"
                      THEN Some(baseline[1].avg_processing_time)
                 ELSE report[key]]

\* The dict detect_drift returns after its locked section, from the locals l
\* of the call, the stored baseline and the time.
DriftReport(l, baseline, now) ==
    [drift_detected |-> l.confidence_drift \/ l.processing_drift \/ l.class_drift,
     confidence_drift |-> l.confidence_drift,
     processing_drift |-> l.processing_drift,
     class_drift |-> l.class_drift,
     current_avg_confidence |-> l.avg_confidence,
     current_avg_processing_time |-> l.avg_processing_time,
     baseline_avg_confidence |-> l.baseline_avg_confidence,
     baseline_avg_processing_time |->
        IF baseline # None THEN Some(baseline[1].avg_processing_time) ELSE None,
     timestamp |-> now]

\* ------------------------------------------------------------------- state
VARIABLES
    scenario,                    \* which workload this run is (see Scenarios)
    window_size,                 \* ModelMonitor.window_size
    predictions_history,         \* deque(maxlen = window_size)
    confidence_history,          \* deque(maxlen = window_size)
    processing_times,            \* deque(maxlen = window_size)
    class_distribution_history,  \* deque(maxlen = window_size)
    baseline_metrics,            \* None or Some(ModelMetrics)
    lock,                        \* 0 when free, else the thread holding it
    registry,                    \* the Prometheus metrics
    clock,                       \* datetime.now(), as a count of readings
    pc,                          \* per thread: the statement it is to run next
    local,                       \* per thread: the local variables of its call
    ret,                         \* per thread: what its last call returned
    calls,                       \* calls made after the warm-up
    recorded                     \* history: every record appended, in order

monitor == <<window_size, predictions_history, confidence_history, processing_times,
             class_distribution_history, baseline_metrics, lock, registry>>
window == <<predictions_history, confidence_history, processing_times,
            class_distribution_history>>
vars == <<scenario, window_size, predictions_history, confidence_history,
          processing_times, class_distribution_history, baseline_metrics, lock,
          registry, clock, pc, local, ret, calls, recorded>>

\* ------------------------------------------------------------ sequential use
\* The monitor as one value, and whole calls applied to it one after the
\* other: what a single-threaded caller does.  Init replays a warm-up with
\* these, so every initial state is one the program reaches.
NewMonitor(size) ==
    [window_size |-> size, predictions_history |-> <<>>, confidence_history |-> <<>>,
     processing_times |-> <<>>, class_distribution_history |-> <<>>,
     baseline_metrics |-> None, registry |-> EmptyRegistry, clock |-> 1,
     recorded |-> <<>>]

\* record_prediction(PredictionRecord(timestamp = datetime.now(), ...))
RecordPrediction(m, input) ==
    LET prediction == PredictionRecord(input, m.clock)
        history == DequeAppend(m.predictions_history, prediction, m.window_size)
    IN  [m EXCEPT
            !.predictions_history = history,
            !.confidence_history = DequeAppend(@, prediction.confidence, m.window_size),
            !.processing_times = DequeAppend(@, prediction.processing_time, m.window_size),
            !.class_distribution_history =
                DequeAppend(@, ClassCounts(history), m.window_size),
            !.registry = UpdatePrometheus(@, prediction),
            !.clock = @ + 1,
            !.recorded = Append(@, prediction)]

\* POST /monitoring/baseline: set_baseline_metrics(get_model_metrics())
CaptureBaseline(m) ==
    [m EXCEPT !.baseline_metrics = Some(GetMetricsOf(m.predictions_history))]

Rec(input) == [op |-> "record", input |-> input]
Capture == [op |-> "baseline"]
Times(x, n) == [i \in 1..n |-> x]

\* The calls script[lo..hi] applied to m in order (by halves, so that the
\* recursion is only log(Len(script)) deep).
RECURSIVE Replay(_, _, _, _)
Replay(m, script, lo, hi) ==
    IF lo > hi THEN m
    ELSE IF lo = hi
         THEN IF script[lo].op = "record" THEN RecordPrediction(m, script[lo].input)
              ELSE CaptureBaseline(m)
    ELSE LET mid == (lo + hi) \div 2
             first == Replay(m, script, lo, mid)
         IN  \* (the test is always true: it has first computed before the rest)
             IF first.clock > 0 THEN Replay(first, script, mid + 1, hi) ELSE first
WarmedUp(size, script) == Replay(NewMonitor(size), script, 1, Len(script))

\* ---------------------------------------------------------------- workloads
\* ModelMetrics values an operator passes to set_baseline directly.
BaselineHalf ==
    [total_predictions |-> 100, successful_predictions |-> 100, failed_predictions |-> 0,
     avg_confidence |-> Rat(4, 1), avg_processing_time |-> Rat(3, 1),
     class_distribution |-> <<[key |-> "cat", count |-> 50], [key |-> "dog", count |-> 50]>>,
     recent_errors |-> <<>>]
BaselineBird ==
    [total_predictions |-> 5, successful_predictions |-> 5, failed_predictions |-> 0,
     avg_confidence |-> Rat(7, 1), avg_processing_time |-> Rat(2, 1),
     class_distribution |-> <<[key |-> "cat", count |-> 2], [key |-> "dog", count |-> 2],
                              [key |-> "bird", count |-> 1]>>,
     recent_errors |-> <<>>]
BaselineZero ==
    [total_predictions |-> 0, successful_predictions |-> 0, failed_predictions |-> 0,
     avg_confidence |-> Rat(9, 1), avg_processing_time |-> Rat(1, 1),
     class_distribution |-> <<[key |-> "cat", count |-> 0]>>,
     recent_errors |-> <<>>]

\* ModelMonitor(window_size = LargeWindow): room for more than RecentWindow
\* records, and small enough to be filled.
LargeWindow == RecentWindow + 10

\* A run: a monitor of some capacity, the calls already made on it by one
\* thread (warmup), and the records and baselines the callers send afterwards.
Scenarios == <<
    [window_size |-> SmallWindow, warmup |-> <<>>,
     inputs |-> {Cat9, Dog5, FailNone}, baselines |-> {EmptyMetrics}],
    [window_size |-> SmallWindow, warmup |-> Times(Rec(Dog5), SmallWindow - 1),
     inputs |-> {Cat9, Fail503}, baselines |-> {}],
    [window_size |-> LargeWindow, warmup |-> Times(Rec(Cat9), MinRecords - 1),
     inputs |-> {Cat9}, baselines |-> {BaselineHalf}],
    [window_size |-> LargeWindow,
     warmup |-> Times(Rec(Cat9), MinRecords + 10) \o <<Capture>>
                \o Times(Rec(Dog5), MinRecords),
     inputs |-> {Dog5}, baselines |-> {}],
    [window_size |-> LargeWindow,
     warmup |-> Times(Rec(Cat9), LargeWindow - RecentWindow)
                \o Times(Rec(Dog5), RecentWindow),
     inputs |-> {Dog5}, baselines |-> {BaselineHalf}],
    [window_size |-> LargeWindow,
     warmup |-> Times(Rec(Cat4), MinRecords) \o <<Capture>>
                \o Times(Rec(Dog5), RecentWindow),
     inputs |-> {Dog5}, baselines |-> {}],
    [window_size |-> LargeWindow, warmup |-> Times(Rec(Fail503), MaxErrors - 1),
     inputs |-> {Fail500, FailNone, Cat9}, baselines |-> {}],
    [window_size |-> LargeWindow,
     warmup |-> Times(Rec(Cat9), MinRecords \div 2) \o Times(Rec(Dog5), MinRecords \div 2),
     inputs |-> {Cat9}, baselines |-> {BaselineBird, BaselineZero}],
    [window_size |-> LargeWindow,
     warmup |-> Times(Rec(Cat9), MinRecords - MaxErrors) \o Times(Rec(Fail503), MaxErrors),
     inputs |-> {Fail503}, baselines |-> {}]
>>

\* ------------------------------------------------------------ thread state
\* The locals of a call, and two history fields: loads, the values of
\* self.baseline_metrics the call has read so far, in order; unlocked, whether
\* the call has read or written a window sequence while not holding the lock.
NoLocals ==
    [prediction |-> None, recent_confidences |-> <<>>, recent_processing_times |-> <<>>,
     avg_confidence |-> Zero, confidence_drift |-> FALSE,
     avg_processing_time |-> Zero, processing_drift |-> FALSE,
     class_drift |-> FALSE, recent_dist |-> <<>>, baseline_total |-> 0,
     recent_total |-> 0, i |-> 0, baseline_avg_confidence |-> None, status |-> 0,
     loads |-> <<>>, unlocked |-> FALSE]

\* What the last call of a thread returned: value is the returned object, and
\* status the HTTP status of /predict when the call was made by it.  The
\* other fields are history: the argument of the call, the locals' loads and
\* unlocked, and, as they were when the call returned (for detect_drift's
\* early return: when it read the length), the number n of records appended
\* so far and the stored baseline.
Returned(op, arg, value, l) ==
    [op |-> op, arg |-> arg, value |-> value, status |-> l.status, loads |-> l.loads,
     unlocked |-> l.unlocked, n |-> Len(recorded), baseline |-> baseline_metrics]
NoCall ==
    [op |-> "none", arg |-> None, value |-> None, status |-> 0, loads |-> <<>>,
     unlocked |-> FALSE, n |-> 0, baseline |-> None]

Init ==
    \E s \in 1..Len(Scenarios) :
        LET m == WarmedUp(Scenarios[s].window_size, Scenarios[s].warmup)
        IN  /\ scenario = s
            /\ window_size = m.window_size
            /\ predictions_history = m.predictions_history
            /\ confidence_history = m.confidence_history
            /\ processing_times = m.processing_times
            /\ class_distribution_history = m.class_distribution_history
            /\ baseline_metrics = m.baseline_metrics
            /\ lock = 0
            /\ registry = m.registry
            /\ clock = m.clock
            /\ pc = [t \in Threads |-> "idle"]
            /\ local = [t \in Threads |-> NoLocals]
            /\ ret = [t \in Threads |-> NoCall]
            /\ calls = 0
            /\ recorded = m.recorded

\* ------------------------------------------------------------------ helpers
Idle(t) == pc[t] = "idle" /\ calls < MaxCalls
Goto(t, label) == pc' = [pc EXCEPT ![t] = label]
Return(t, result) ==
    /\ pc' = [pc EXCEPT ![t] = "idle"]
    /\ local' = [local EXCEPT ![t] = NoLocals]
    /\ ret' = [ret EXCEPT ![t] = result]
\* with self.lock: (threading.Lock blocks while another thread holds it)
Acquire(t) == lock = 0 /\ lock' = t
Release(t) == lock' = 0
\* The locals l of thread t after a read of self.baseline_metrics.
Load(t, l) == [l EXCEPT !.loads = Append(@, baseline_metrics)]
\* The locals l of thread t after a read or write of a window sequence.
Access(t, l) == [l EXCEPT !.unlocked = @ \/ lock # t]

\* -------------------------------------------------------- record_prediction
\* app.py /predict: the caller builds the PredictionRecord, reading the time,
\* and calls record_prediction.
Predict(t, input) ==
    /\ Idle(t)
    /\ local' = [local EXCEPT ![t].prediction = Some(PredictionRecord(input, clock)),
                              ![t].status = StatusOf(input)]
    /\ clock' = clock + 1
    /\ calls' = calls + 1
    /\ Goto(t, "r_lock")
    /\ UNCHANGED <<scenario, monitor, ret, recorded>>

\* (mutant) record_prediction appends without taking the lock.
RecordLockNotTaken(t) ==
    /\ pc[t] = "r_lock"
    /\ Goto(t, "r_pred")
    /\ UNCHANGED <<scenario, window_size, window, baseline_metrics, lock, registry,
                   clock, local, ret, calls, recorded>>

\* line 70
RecordLock(t) ==
    /\ pc[t] = "r_lock"
    /\ Acquire(t)
    /\ Goto(t, "r_pred")
    /\ UNCHANGED <<scenario, window_size, window, baseline_metrics, registry, clock,
                   local, ret, calls, recorded>>

\* line 71
RecordAppendPrediction(t) ==
    /\ pc[t] = "r_pred"
    /\ predictions_history' =
           DequeAppend(predictions_history, local[t].prediction[1], window_size)
    /\ recorded' = Append(recorded, local[t].prediction[1])
    /\ local' = [local EXCEPT ![t] = Access(t, @)]
    /\ Goto(t, "r_conf")
    /\ UNCHANGED <<scenario, window_size, confidence_history, processing_times,
                   class_distribution_history, baseline_metrics, lock, registry, clock,
                   ret, calls>>

\* line 72
RecordAppendConfidence(t) ==
    /\ pc[t] = "r_conf"
    /\ confidence_history' =
           DequeAppend(confidence_history, local[t].prediction[1].confidence, window_size)
    /\ local' = [local EXCEPT ![t] = Access(t, @)]
    /\ Goto(t, "r_time")
    /\ UNCHANGED <<scenario, window_size, predictions_history, processing_times,
                   class_distribution_history, baseline_metrics, lock, registry, clock,
                   ret, calls, recorded>>

\* line 73
RecordAppendTime(t) ==
    /\ pc[t] = "r_time"
    /\ processing_times' =
           DequeAppend(processing_times, local[t].prediction[1].processing_time,
                       window_size)
    /\ local' = [local EXCEPT ![t] = Access(t, @)]
    /\ Goto(t, "r_dist")
    /\ UNCHANGED <<scenario, window_size, predictions_history, confidence_history,
                   class_distribution_history, baseline_metrics, lock, registry, clock,
                   ret, calls, recorded>>

\* (mutant) the snapshot is the previous snapshot with the new record's class
\* counted once more, so that evicted records stay counted.
RecordDistributionIncremental(t) ==
    /\ pc[t] = "r_dist"
    /\ class_distribution_history' =
           DequeAppend(class_distribution_history,
                       Inc(IF class_distribution_history = <<>> THEN <<>>
                           ELSE class_distribution_history[Len(class_distribution_history)],
                           local[t].prediction[1].predicted_class),
                       window_size)
    /\ local' = [local EXCEPT ![t] = Access(t, @)]
    /\ Goto(t, "r_prom")
    /\ UNCHANGED <<scenario, window_size, predictions_history, confidence_history,
                   processing_times, baseline_metrics, lock, registry, clock,
                   ret, calls, recorded>>

\* lines 76-79
RecordDistribution(t) ==
    /\ pc[t] = "r_dist"
    /\ class_distribution_history' =
           DequeAppend(class_distribution_history, ClassCounts(predictions_history),
                       window_size)
    /\ local' = [local EXCEPT ![t] = Access(t, @)]
    /\ Goto(t, "r_prom")
    /\ UNCHANGED <<scenario, window_size, predictions_history, confidence_history,
                   processing_times, baseline_metrics, lock, registry, clock,
                   ret, calls, recorded>>

\* lines 82-89, and the end of the with block
RecordPrometheus(t) ==
    /\ pc[t] = "r_prom"
    /\ registry' = UpdatePrometheus(registry, local[t].prediction[1])
    /\ Release(t)
    /\ Return(t, Returned("record_prediction", local[t].prediction, None, local[t]))
    /\ UNCHANGED <<scenario, window_size, window, baseline_metrics, clock, calls,
                   recorded>>

\* -------------------------------------------------------------- set_baseline
\* The ModelMetrics a caller passes: one the operator wrote, or, as
\* POST /monitoring/baseline does, the one its get_metrics call returned.
BaselineArguments(t) ==
    Scenarios[scenario].baselines
        \cup (IF ret[t].op = "get_metrics" THEN {ret[t].value} ELSE {})

\* line 93 (no lock is taken)
SetBaseline(t, baseline) ==
    /\ Idle(t)
    /\ baseline_metrics' = Some(baseline)
    /\ calls' = calls + 1
    /\ ret' = [ret EXCEPT ![t] =
                  Returned("set_baseline", Some(baseline), None, local[t])]
    /\ UNCHANGED <<scenario, window_size, window, lock, registry, clock, pc, local,
                   recorded>>

\* --------------------------------------------------------------- get_metrics
\* line 148
GetMetricsLock(t) ==
    /\ Idle(t)
    /\ Acquire(t)
    /\ calls' = calls + 1
    /\ Goto(t, "g_body")
    /\ UNCHANGED <<scenario, window_size, window, baseline_metrics, registry, clock,
                   local, ret, recorded>>

\* (mutant) get_metrics keeps what it computed as the baseline.
GetMetricsBodyKeepingBaseline(t) ==
    /\ pc[t] = "g_body"
    /\ Release(t)
    /\ Return(t, Returned("get_metrics", None, GetMetricsOf(predictions_history),
                          Access(t, local[t])))
    /\ baseline_metrics' = Some(GetMetricsOf(predictions_history))
    /\ UNCHANGED <<scenario, window_size, window, registry, clock, calls, recorded>>

\* (mutant) get_metrics consumes the oldest record of the window.
GetMetricsBodyDraining(t) ==
    /\ pc[t] = "g_body"
    /\ Release(t)
    /\ Return(t, Returned("get_metrics", None, GetMetricsOf(predictions_history),
                          Access(t, local[t])))
    /\ predictions_history' =
           IF predictions_history = <<>> THEN <<>> ELSE Tail(predictions_history)
    /\ UNCHANGED <<scenario, window_size, confidence_history, processing_times,
                   class_distribution_history, baseline_metrics, registry, clock,
                   calls, recorded>>

\* lines 149-175, and the end of the with block
GetMetricsBody(t) ==
    /\ pc[t] = "g_body"
    /\ Release(t)
    /\ Return(t, Returned("get_metrics", None, GetMetricsOf(predictions_history),
                          Access(t, local[t])))
    /\ UNCHANGED <<scenario, window_size, window, baseline_metrics, registry, clock,
                   calls, recorded>>

\* -------------------------------------------------------------- detect_drift
\* lines 97-98 (before the lock is taken)
DetectCheck(t) ==
    /\ Idle(t)
    /\ calls' = calls + 1
    /\ IF InsufficientData(predictions_history)
       THEN /\ ret' = [ret EXCEPT ![t] =
                         Returned("detect_drift", None, InsufficientResult,
                                  Access(t, local[t]))]
            /\ UNCHANGED <<pc, local>>
       ELSE /\ local' = [local EXCEPT ![t] = Access(t, @)]
            /\ Goto(t, "d_lock")
            /\ UNCHANGED ret
    /\ UNCHANGED <<scenario, monitor, clock, recorded>>

\* line 100
DetectLock(t) ==
    /\ pc[t] = "d_lock"
    /\ Acquire(t)
    /\ Goto(t, "d_conf")
    /\ UNCHANGED <<scenario, window_size, window, baseline_metrics, registry, clock,
                   local, ret, calls, recorded>>

\* lines 101-108
DetectConfidence(t) ==
    /\ pc[t] = "d_conf"
    /\ LET recent_confidences == RecentOf(confidence_history)
           avg_confidence == Mean(recent_confidences)
       IN  local' = [local EXCEPT ![t] =
               [Load(t, Access(t, @)) EXCEPT
                   !.recent_confidences = recent_confidences,
                   !.recent_processing_times = RecentOf(processing_times),
                   !.avg_confidence = avg_confidence,
                   !.confidence_drift = ConfidenceDrift(avg_confidence, baseline_metrics)]]
    /\ Goto(t, "d_proc")
    /\ UNCHANGED <<scenario, monitor, clock, ret, calls, recorded>>

\* lines 111-114
DetectProcessing(t) ==
    /\ pc[t] = "d_proc"
    /\ LET avg_processing_time == Mean(local[t].recent_processing_times)
       IN  local' = [local EXCEPT ![t] =
               [Load(t, @) EXCEPT
                   !.avg_processing_time = avg_processing_time,
                   !.processing_drift =
                       ProcessingDrift(avg_processing_time, baseline_metrics)]]
    /\ Goto(t, "d_guard")
    /\ UNCHANGED <<scenario, monitor, clock, ret, calls, recorded>>

\* lines 117-120
DetectClassGuard(t) ==
    /\ pc[t] = "d_guard"
    /\ IF Len(class_distribution_history) > 0
       THEN /\ local' = [local EXCEPT ![t] =
                   [Load(t, Access(t, @)) EXCEPT
                       !.class_drift = FALSE,
                       !.recent_dist =
                           class_distribution_history[Len(class_distribution_history)]]]
            /\ Goto(t, IF ClassGuard(baseline_metrics) THEN "d_total" ELSE "d_ret")
       ELSE /\ local' = [local EXCEPT ![t] =
                   [Access(t, @) EXCEPT !.class_drift = FALSE]]
            /\ Goto(t, "d_ret")
    /\ UNCHANGED <<scenario, monitor, clock, ret, calls, recorded>>

\* lines 122-124
DetectClassTotals(t) ==
    /\ pc[t] = "d_total"
    /\ LET baseline_total == SumValues(baseline_metrics[1].class_distribution)
           recent_total == SumValues(local[t].recent_dist)
       IN  /\ local' = [local EXCEPT ![t] =
                   [Load(t, @) EXCEPT
                       !.baseline_total = baseline_total,
                       !.recent_total = recent_total,
                       !.i = 1]]
           /\ Goto(t, IF baseline_total > 0 /\ recent_total > 0 THEN "d_loop" ELSE "d_ret")
    /\ UNCHANGED <<scenario, monitor, clock, ret, calls, recorded>>

\* lines 125-130: one iteration of "for class_name in recent_dist"
DetectClassLoop(t) ==
    /\ pc[t] = "d_loop"
    /\ LET l == local[t]
           entry == l.recent_dist[l.i]
           drift == RatioDrift(Get(baseline_metrics[1].class_distribution, entry.key),
                               l.baseline_total, entry.count, l.recent_total)
       IN  /\ local' = [local EXCEPT ![t] =
                   [Load(t, @) EXCEPT
                       !.class_drift = drift,
                       !.i = l.i + 1]]
           /\ Goto(t, IF drift \/ l.i = Len(l.recent_dist) THEN "d_ret" ELSE "d_loop")
    /\ UNCHANGED <<scenario, monitor, clock, ret, calls, recorded>>

\* lines 132-141: the dict display up to "baseline_avg_confidence"
DetectReport(t) ==
    /\ pc[t] = "d_ret"
    /\ local' = [local EXCEPT ![t] =
           [Load(t, @) EXCEPT
               !.baseline_avg_confidence =
                   IF baseline_metrics # None
                   THEN Some(baseline_metrics[1].avg_confidence) ELSE None]]
    /\ Goto(t, "d_ret2")
    /\ UNCHANGED <<scenario, monitor, clock, ret, calls, recorded>>

\* (mutant) detect_drift returns without releasing the lock.
DetectReturnHoldingLock(t) ==
    /\ pc[t] = "d_ret2"
    /\ LET l == Load(t, local[t])
       IN  Return(t, Returned("detect_drift", None,
                              DriftReport(l, baseline_metrics, clock), l))
    /\ clock' = clock + 1
    /\ UNCHANGED <<scenario, window_size, window, baseline_metrics, lock, registry,
                   calls, recorded>>

\* lines 142-144, and the end of the with block
DetectReturn(t) ==
    /\ pc[t] = "d_ret2"
    /\ LET l == Load(t, local[t])
       IN  Return(t, Returned("detect_drift", None,
                              DriftReport(l, baseline_metrics, clock), l))
    /\ clock' = clock + 1
    /\ Release(t)
    /\ UNCHANGED <<scenario, window_size, window, baseline_metrics, registry, calls,
                   recorded>>

\* --------------------------------------------------------------------- Next
Next ==
    \E t \in Threads :
        \/ \E input \in Scenarios[scenario].inputs : Predict(t, input)
        \/ RecordLock(t)
        \/ RecordAppendPrediction(t)
        \/ RecordAppendConfidence(t)
        \/ RecordAppendTime(t)
        \/ RecordDistribution(t)
        \/ RecordPrometheus(t)
        \/ \E baseline \in BaselineArguments(t) : SetBaseline(t, baseline)
        \/ GetMetricsLock(t)
        \/ GetMetricsBody(t)
        \/ DetectCheck(t)
        \/ DetectLock(t)
        \/ DetectConfidence(t)
        \/ DetectProcessing(t)
        \/ DetectClassGuard(t)
        \/ DetectClassTotals(t)
        \/ DetectClassLoop(t)
        \/ DetectReport(t)
        \/ DetectReturn(t)

Spec == Init /\ [][Next]_vars

\* Scheduling.  A thread inside a call is run again and again until the call
\* returns: Proceed(t) is its next statement, and it can be taken exactly
\* when Running(t) holds, so the last conjunct of FairSpec is weak fairness
\* of Proceed(t) with ENABLED <<Proceed(t)>>_vars written out as Running(t).
\* A thread blocked on the lock takes it once the lock stays free.  No caller
\* is obliged to begin a call.  Fair runs are taken on four workloads, which
\* between them take every branch of the four methods: the small window that
\* evicts, the window one record short of 50, the window of 50 records of
\* two classes with the baselines that enter the class loop and that skip
\* it, and the window with failed records.
Proceed(t) ==
    \/ RecordAppendPrediction(t)
    \/ RecordAppendConfidence(t)
    \/ RecordAppendTime(t)
    \/ RecordDistribution(t)
    \/ RecordPrometheus(t)
    \/ GetMetricsBody(t)
    \/ DetectConfidence(t)
    \/ DetectProcessing(t)
    \/ DetectClassGuard(t)
    \/ DetectClassTotals(t)
    \/ DetectClassLoop(t)
    \/ DetectReport(t)
    \/ DetectReturn(t)
Running(t) == pc[t] \notin {"idle", "r_lock", "d_lock"}

FairScenarios == {2, 3, 8, 9}
FairInit == Init /\ scenario \in FairScenarios

FairSpec ==
    /\ FairInit /\ [][Next]_vars
    /\ \A t \in Threads :
           /\ WF_vars(RecordLock(t))
           /\ WF_vars(DetectLock(t))
           /\ []<>(~Running(t)) \/ []<><<Proceed(t)>>_vars

\* ================================================================== claims
\* The sum of the numbers xs[i], as the sum over the distinct values v of v
\* times the number of entries equal to v.
RECURSIVE TotalOver(_, _)
TotalOver(xs, values) ==
    IF values = {} THEN 0
    ELSE LET v == CHOOSE x \in values : TRUE
         IN  v * Cardinality({i \in DOMAIN xs : xs[i] = v})
                 + TotalOver(xs, values \ {v})
Total(xs) == TotalOver(xs, {xs[i] : i \in DOMAIN xs})

Calls(op) == {t \in Threads : ret[t].op = op}
\* The records in the window when n records had been appended (C1), and so
\* the window the last call of thread t read.
WindowAt(n) == SubSeq(recorded, n - Min(n, window_size) + 1, n)
HistoryOf(t) == WindowAt(ret[t].n)
\* detect_drift calls that returned from the locked section / before it.
FullReports == {t \in Calls("detect_drift") : Len(HistoryOf(t)) >= MinRecords}
EarlyReturns == {t \in Calls("detect_drift") : Len(HistoryOf(t)) < MinRecords}

\* ---------------------------------------------------------------------- C1
\* C1: the window holds exactly the last min(n, C) of the n records appended
\* so far, in the order they were appended, and get_metrics reports
\* total_predictions = min(n, C).
C1_WindowIsLastRecorded ==
    LET n == Len(recorded)
        k == Min(n, window_size)
    IN  /\ Len(predictions_history) = k
        /\ predictions_history = SubSeq(recorded, n - k + 1, n)
        /\ \A t \in Calls("get_metrics") :
               ret[t].value.total_predictions = Min(ret[t].n, window_size)

\* The small window has overflowed and get_metrics was called afterwards.
C1_Witness ==
    \E t \in Calls("get_metrics") :
        /\ window_size = SmallWindow
        /\ ret[t].n > window_size
        /\ HistoryOf(t)[1] # recorded[1]

\* ---------------------------------------------------------------------- C2
SuccessfulCount(h) == Cardinality({i \in 1..Len(h) : h[i].success})
SuccessfulConfidenceSum(h) ==
    Total([i \in 1..Len(h) |-> IF h[i].success THEN h[i].confidence ELSE 0])

\* C2: avg_confidence of get_metrics is the mean confidence of the successful
\* records of the window, and 0.0 when the window has no successful record.
C2_AvgConfidenceOverSuccessful ==
    \A t \in Calls("get_metrics") :
        LET h == HistoryOf(t)
            avg == ret[t].value.avg_confidence
        IN  IF SuccessfulCount(h) = 0 THEN avg = [n |-> 0, d |-> 1]
            ELSE /\ avg.d > 0
                 /\ avg.n * SuccessfulCount(h) = SuccessfulConfidenceSum(h) * avg.d

\* One get_metrics on a window of failed records only, another on a window
\* where the failed records would change the mean.
C2_Witness ==
    \E t, u \in Calls("get_metrics") :
        /\ HistoryOf(t) # <<>>
        /\ SuccessfulCount(HistoryOf(t)) = 0
        /\ SuccessfulCount(HistoryOf(u)) \in 1..(Len(HistoryOf(u)) - 1)
        /\ ret[u].value.avg_confidence.n > 0

C4_NoBaselineNoDrift ==
    \A t \in Calls("detect_drift") :
        ret[t].baseline = None =>
            /\ ret[t].value.drift_detected = FALSE
            /\ t \in FullReports =>
                   /\ ret[t].value.confidence_drift = FALSE
                   /\ ret[t].value.processing_drift = FALSE
                   /\ ret[t].value.class_drift = FALSE

\* A full report on a window of confidence 0.9 with no baseline.
C4_Witness ==
    \E t \in FullReports :
        /\ ret[t].baseline = None
        /\ \A i \in 1..Len(HistoryOf(t)) : HistoryOf(t)[i].confidence = 9

\* ---------------------------------------------------------------------- C5
RecentCount(h) == Min(RecentWindow, Len(h))
RecentConfidenceSum(h) ==
    Total([i \in 1..RecentCount(h) |-> h[Len(h) - RecentCount(h) + i].confidence])
\* |sum / count - avg| > drift_threshold
MeanDiffers(sum, count, avg) ==
    Abs(sum * avg.d - avg.n * count) > drift_threshold * count * avg.d

\* C5: with at least 50 records and a baseline set, confidence_drift is true
\* exactly when the mean confidence of the last min(100, length) records
\* differs from the baseline's avg_confidence by more than drift_threshold.
\* (The baseline is the one read at line 107.)
C5_ConfidenceDrift ==
    \A t \in FullReports :
        ret[t].loads[1] # None =>
            (ret[t].value.confidence_drift
                <=> MeanDiffers(RecentConfidenceSum(HistoryOf(t)),
                                RecentCount(HistoryOf(t)),
                                ret[t].loads[1][1].avg_confidence))

\* 60 records at 0.9, the baseline captured, then 50 records at 0.5:
\* confidence_drift is true.
C5_Witness ==
    \E t \in FullReports :
        LET h == HistoryOf(t)
        IN  /\ Len(h) = MinRecords + 10 + MinRecords
            /\ \A i \in 1..Len(h) :
                   h[i].confidence = IF i <= MinRecords + 10 THEN 9 ELSE 5
            /\ ret[t].loads[1] # None
            /\ ret[t].loads[1][1].avg_confidence = [n |-> 9, d |-> 1]
            /\ ret[t].value.confidence_drift = TRUE

\* A difference equal to the threshold: not drift.
C5_WitnessAtThreshold ==
    \E t \in FullReports :
        /\ ret[t].loads[1] # None
        /\ ret[t].loads[1][1].avg_confidence = [n |-> 4, d |-> 1]
        /\ RecentConfidenceSum(HistoryOf(t)) = 5 * RecentCount(HistoryOf(t))
        /\ Len(HistoryOf(t)) > RecentWindow
        /\ ret[t].value.confidence_drift = FALSE

\* ---------------------------------------------------------------------- C6
ClassesOf(h) == {h[i].predicted_class : i \in 1..Len(h)}
CountOf(h, class) == Cardinality({i \in 1..Len(h) : h[i].predicted_class = class})
BaselineCount(dist, class) ==
    Total([j \in 1..Len(dist) |-> IF dist[j].key = class THEN dist[j].count ELSE 0])
BaselineTotal(dist) == Total([j \in 1..Len(dist) |-> dist[j].count])
ClassDriftExpected(h, dist) ==
    /\ BaselineTotal(dist) > 0
    /\ Len(h) > 0
    /\ \E class \in ClassesOf(h) :
           Scale * Abs(CountOf(h, class) * BaselineTotal(dist)
                       - BaselineCount(dist, class) * Len(h))
               > drift_threshold * BaselineTotal(dist) * Len(h)
\* The reads of self.baseline_metrics in lines 117-130 of a finished call.
ClassLoads(r) == {r.loads[i] : i \in 3..(Len(r.loads) - 2)}

\* C6: with at least 50 records and a baseline set, class_drift is true
\* exactly when both totals are positive and some class of the window has
\* ratios, in the window and in the baseline, that differ by more than
\* drift_threshold; classes only in the baseline are not examined.  (The
\* baseline is the one lines 117-130 read, when they read the same one.)
C6_ClassDrift ==
    \A t \in FullReports :
        \A b \in ClassLoads(ret[t]) :
            (ClassLoads(ret[t]) = {b} /\ b # None) =>
                (ret[t].value.class_drift
                    <=> ClassDriftExpected(HistoryOf(t), b[1].class_distribution))

\* Baseline {cat: 50, dog: 50} and a window of "cat" only: class_drift.
C6_Witness ==
    \E t \in FullReports :
        /\ ClassLoads(ret[t]) = {Some(BaselineHalf)}
        /\ ClassesOf(HistoryOf(t)) = {"cat"}
        /\ ret[t].value.class_drift = TRUE

\* A class of the baseline alone is off by more than the threshold, the
\* classes of the window are not: no class_drift.
C6_WitnessBaselineOnly ==
    \E t \in FullReports :
        /\ ClassLoads(ret[t]) = {Some(BaselineBird)}
        /\ ClassesOf(HistoryOf(t)) = {"cat", "dog"}
        /\ ret[t].value.class_drift = FALSE

\* ---------------------------------------------------------------------- C7
\* C7: record_prediction, get_metrics and detect_drift read and write the
\* window sequences only while holding the lock.
C7_AllAccessUnderLock ==
    \A t \in Threads : ~local[t].unlocked /\ ~ret[t].unlocked

\* ---------------------------------------------------------------------- C8
ReportKeys ==
    {"current_avg_confidence", "current_avg_processing_time",
     "baseline_avg_confidence", "baseline_avg_processing_time", "timestamp"}

\* C8 as stated: every result of detect_drift, the one for fewer than 50
\* records included, has the current and baseline averages and a timestamp.
C8_Original ==
    \A t \in Calls("detect_drift") : ReportKeys \subseteq DOMAIN ret[t].value

RecentTimeSum(h) ==
    Total([i \in 1..RecentCount(h) |-> h[Len(h) - RecentCount(h) + i].processing_time])
IsMean(avg, sum, count) == avg.d > 0 /\ avg.n * count = sum * avg.d

\* C8, amended: a result of detect_drift for at least 50 records has the
\* current averages, the baseline averages (null when it read no baseline)
\* and a timestamp; the result for fewer than 50 records has drift_detected
\* and reason only.
C8_ReportFields ==
    \A t \in Calls("detect_drift") :
        LET r == ret[t]
            k == Len(r.loads)
        IN  IF t \in EarlyReturns
            THEN DOMAIN r.value = {"drift_detected", "reason"}
            ELSE /\ ReportKeys \subseteq DOMAIN r.value
                 /\ IsMean(r.value.current_avg_confidence,
                           RecentConfidenceSum(HistoryOf(t)), RecentCount(HistoryOf(t)))
                 /\ IsMean(r.value.current_avg_processing_time,
                           RecentTimeSum(HistoryOf(t)), RecentCount(HistoryOf(t)))
                 /\ r.value.baseline_avg_confidence =
                        IF r.loads[k - 1] = None THEN None
                        ELSE Some(r.loads[k - 1][1].avg_confidence)
                 /\ r.value.baseline_avg_processing_time =
                        IF r.loads[k] = None THEN None
                        ELSE Some(r.loads[k][1].avg_processing_time)
                 /\ r.value.timestamp \in 1..(clock - 1)

\* One call returned early and another a full report with null baseline
\* averages.
C8_Witness ==
    \E t \in EarlyReturns, u \in FullReports :
        /\ ret[u].value.baseline_avg_confidence = None
        /\ ret[u].value.baseline_avg_processing_time = None

\* ---------------------------------------------------------------------- C9
FailedWithMessage(p) == ~p.success /\ p.error_message # None
MessagesOf(h) ==
    LET failed == SelectSeq(h, FailedWithMessage)
    IN  [i \in 1..Len(failed) |-> failed[i].error_message[1]]

\* C9: recent_errors of get_metrics is the last min(k, 10) of the k non-null
\* error messages of the window's failed records, in order.
C9_LastTenMessages ==
    \A t \in Calls("get_metrics") :
        LET messages == MessagesOf(HistoryOf(t))
            k == Len(messages)
        IN  ret[t].value.recent_errors = SubSeq(messages, k - Min(k, MaxErrors) + 1, k)

\* --------------------------------------------------------------------- C10
\* C10: a step changes the stored baseline only if it is a set_baseline call,
\* and a set_baseline call leaves its argument as the stored baseline; so
\* record_prediction, get_metrics and detect_drift never change it.
C10_BaselineFrame ==
    [][/\ baseline_metrics' # baseline_metrics =>
              \E t \in Threads :
                  /\ pc[t] = "idle" /\ pc'[t] = "idle"
                  /\ calls' = calls + 1
                  /\ ret'[t].op = "set_baseline"
                  /\ baseline_metrics' = ret'[t].arg
       /\ \A t \in Threads :
              (ret'[t] # ret[t] /\ ret'[t].op = "set_baseline") =>
                  baseline_metrics' = ret'[t].arg]_vars

\* A baseline captured from get_metrics is still the stored baseline after a
\* later record_prediction has changed what get_metrics would return.
C10_Witness ==
    \E t \in Calls("set_baseline"), u \in Calls("record_prediction") :
        /\ ret[t].arg = Some(GetMetricsOf(HistoryOf(t)))
        /\ ret[u].n > ret[t].n
        /\ baseline_metrics = ret[t].arg
        /\ baseline_metrics # Some(GetMetricsOf(predictions_history))

\* --------------------------------------------------------------------- C11
\* The statements of record_prediction that write a window sequence.
Appending(t) == pc[t] \in {"r_pred", "r_conf", "r_time", "r_dist"}

\* C11: a get_metrics call returns the same value as an earlier get_metrics
\* call (of the same or of another thread) when no record has been appended
\* in between, and only the appends of record_prediction change a window
\* sequence: get_metrics, detect_drift and set_baseline leave all four
\* unchanged.
C11_GetMetricsIdempotent ==
    [][/\ \A t \in Threads :
              (ret'[t] # ret[t] /\ ret'[t].op = "get_metrics") =>
                  \A u \in Threads :
                      (ret[u].op = "get_metrics" /\ ret[u].n = ret'[t].n) =>
                          ret'[t].value = ret[u].value
       /\ window' # window =>
              \E t \in Threads : Appending(t) /\ lock = t /\ pc'[t] # pc[t]]_vars

\* Two threads called get_metrics on the same non-empty window, after the
\* last record was appended.
C11_Witness ==
    \E t, u \in Calls("get_metrics") :
        /\ t # u
        /\ ret[t].n = ret[u].n
        /\ ret[t].n = Len(recorded)
        /\ ret[t].value.total_predictions > 0
        /\ ret[t].value.failed_predictions > 0
        /\ calls = MaxCalls

\* --------------------------------------------------------------------- C12
\* How many times the record p has been appended to the window.
Appended(p) == Cardinality({i \in 1..Len(recorded) : recorded[i] = p})
FailedCount(h) == Cardinality({i \in 1..Len(h) : ~h[i].success})

C12_WitnessOtherPaths ==
    \E t, u \in Calls("record_prediction") : ret[t].status = 503 /\ ret[u].status = 200

\* --------------------------------------------------------------------- C13
\* C13: in every full report of detect_drift, drift_detected is the logical
\* OR of the confidence_drift, processing_drift and class_drift of that
\* report.
C13_DriftDetectedIsOr ==
    \A t \in FullReports :
        LET v == ret[t].value
        IN  v.drift_detected
                <=> (v.confidence_drift \/ v.processing_drift \/ v.class_drift)

\* A report whose only signal is class_drift.
C13_Witness ==
    \E t \in FullReports :
        /\ ret[t].value.class_drift
        /\ ~ret[t].value.confidence_drift /\ ~ret[t].value.processing_drift
        /\ ret[t].value.drift_detected

\* A report with no signal against a baseline.
C13_WitnessNoDrift ==
    \E t \in FullReports : ret[t].loads[1] # None /\ ~ret[t].value.drift_detected

\* --------------------------------------------------------------------- C14
\* The four window sequences have one length, at most the capacity, and the
\* entries at one index belong to one record.
Aligned ==
    LET n == Len(predictions_history)
    IN  /\ n <= window_size
        /\ Len(confidence_history) = n
        /\ Len(processing_times) = n
        /\ Len(class_distribution_history) = n
        /\ \A i \in 1..n :
               /\ confidence_history[i] = predictions_history[i].confidence
               /\ processing_times[i] = predictions_history[i].processing_time

\* C14: whenever the lock is free, and whenever a reader (get_metrics or the
\* locked section of detect_drift) holds it, the four window sequences are
\* aligned: no reader sees a record without its confidence, processing time
\* and distribution snapshot.
C14_AlignedWhenLockFree ==
    (lock = 0 \/ ~Appending(lock)) => Aligned

\* A reader holds the lock on a small window that has evicted a record, after
\* record_prediction calls of both threads.
C14_Witness ==
    \E t, u \in Threads :
        /\ lock = t /\ pc[t] = "g_body"
        /\ ret[t].op = "record_prediction" /\ ret[u].op = "record_prediction"
        /\ t # u
        /\ window_size = SmallWindow
        /\ Len(recorded) > window_size
        /\ predictions_history[1] # predictions_history[window_size]

\* While record_prediction holds the lock the sequences are not aligned.
C14_WitnessMidAppend ==
    \E t \in Threads : lock = t /\ pc[t] = "r_conf" /\ ~Aligned

\* --------------------------------------------------------------------- C15
\* C15: once a record_prediction call has appended its snapshot (so whenever
\* the lock is free or a reader holds it, on a non-empty window), the newest
\* entry of class_distribution_history has one count for each class of the
\* records now in the window, failed ones under their label and evicted ones
\* not at all; its counts sum to the window length and it is the
\* class_distribution a get_metrics call has returned in that state.
C15_SnapshotCountsWindow ==
    ((lock = 0 \/ ~Appending(lock)) /\ predictions_history # <<>>) =>
        LET h == predictions_history
            d == class_distribution_history[Len(class_distribution_history)]
        IN  /\ Keys(d) = ClassesOf(h)
            /\ Len(d) = Cardinality(Keys(d))
            /\ \A class \in Keys(d) : Get(d, class) = CountOf(h, class)
            /\ BaselineTotal(d) = Len(h)
            /\ \A t \in Calls("get_metrics") :
                   ret[t].n = Len(recorded) => ret[t].value.class_distribution = d

\* The small window has evicted every record of the class first recorded and
\* holds a failed record.
C15_Witness ==
    /\ lock = 0
    /\ window_size = SmallWindow
    /\ Len(recorded) > window_size
    /\ recorded[1].predicted_class \notin ClassesOf(predictions_history)
    /\ "unknown" \in ClassesOf(predictions_history)
    /\ Cardinality(ClassesOf(predictions_history)) > 1

\* get_metrics was called on a small window that has evicted a record.
C15_WitnessGetMetrics ==
    \E t \in Calls("get_metrics") :
        /\ lock = 0
        /\ window_size = SmallWindow
        /\ ret[t].n = Len(recorded)
        /\ Len(recorded) > window_size

\* --------------------------------------------------------------------- C16
\* The statements inside a with self.lock block.
Locked ==
    {"r_pred", "r_conf", "r_time", "r_dist", "r_prom", "g_body", "d_conf", "d_proc",
     "d_guard", "d_total", "d_loop", "d_ret", "d_ret2"}

\* C16: under fair scheduling every call that has begun returns (whenever a
\* thread is inside a call, it is later idle again) and the lock, whenever
\* held, is later free again; and at all times a thread holds the lock
\* exactly while it is inside a with block (so it does not wait for a lock
\* it holds, and does not return holding it).
C16_EveryCallCompletes ==
    /\ [](\A t \in Threads : lock = t <=> pc[t] \in Locked)
    /\ \A t \in Threads : []<>(pc[t] = "idle")
    /\ []<>(lock = 0)

\* detect_drift is inside its class loop, holding the lock, while a
\* record_prediction call of the other thread waits for the lock.
C16_Witness ==
    \E t, u \in Threads :
        /\ lock = t /\ pc[t] = "d_loop" /\ local[t].i > 1
        /\ pc[u] = "r_lock"

\* --------------------------------------------------------------------- C17
\* A full report of detect_drift all of whose reads of the baseline gave what
\* get_metrics returns on the window the report was computed on.
SelfBaseline(t) ==
    \A i \in 1..Len(ret[t].loads) :
        ret[t].loads[i] = Some(GetMetricsOf(HistoryOf(t)))

\* C17: when the baseline is what get_metrics returns on the window and
\* detect_drift is called on that same window of at least 50 records, it
\* reports drift_detected = false.
C17_SelfBaselineNoDrift ==
    \A t \in FullReports : SelfBaseline(t) => ~ret[t].value.drift_detected

\* --------------------------------------------------------------------- C18
\* C18: a full report of detect_drift is computed against one baseline: every
\* read of self.baseline_metrics made for it gave the same value, so the
\* baseline averages it reports are those of the baseline its three signals
\* were decided with.
C18_OneBaselinePerReport ==
    \A t \in FullReports :
        LET used == ret[t].loads[1]
        IN  /\ \A i \in 1..Len(ret[t].loads) : ret[t].loads[i] = used
            /\ ret[t].value.baseline_avg_confidence =
                   IF used = None THEN None ELSE Some(used[1].avg_confidence)
            /\ ret[t].value.baseline_avg_processing_time =
                   IF used = None THEN None ELSE Some(used[1].avg_processing_time)

\* --------------------------------------------------------------------- C19
\* detect_drift has passed its length check and not yet returned.
PastCheck(t) ==
    pc[t] \in {"d_lock", "d_conf", "d_proc", "d_guard", "d_total", "d_loop", "d_ret",
               "d_ret2"}

\* C19: no step makes a window sequence shorter; so from the length check of
\* detect_drift on, the window holds at least 50 records, the sequences its
\* locked section reads hold at least 50 entries, and the means it has
\* computed are means of non-empty lists.
C19_LengthNeverDecreases ==
    /\ [][/\ Len(predictions_history') >= Len(predictions_history)
          /\ Len(confidence_history') >= Len(confidence_history)
          /\ Len(processing_times') >= Len(processing_times)
          /\ Len(class_distribution_history') >= Len(class_distribution_history)]_vars
    /\ [](\A t \in Threads :
             PastCheck(t) =>
                 /\ Len(predictions_history) >= MinRecords
                 /\ lock = t =>
                        /\ Len(confidence_history) >= MinRecords
                        /\ Len(processing_times) >= MinRecords
                        /\ Len(class_distribution_history) >= MinRecords
                 /\ pc[t] \notin {"d_lock", "d_conf"} =>
                        /\ Len(local[t].recent_confidences) >= MinRecords
                        /\ Len(local[t].recent_processing_times) >= MinRecords
                        /\ local[t].avg_confidence # NaN
                 /\ pc[t] \notin {"d_lock", "d_conf", "d_proc"} =>
                        local[t].avg_processing_time # NaN)

\* detect_drift has passed its check on a full window and waits for the lock
\* while a record_prediction call evicts a record.
C19_Witness ==
    \E t, u \in Threads :
        /\ pc[t] = "d_lock"
        /\ lock = u /\ pc[u] = "r_conf"
        /\ Len(predictions_history) = window_size
        /\ Len(recorded) > window_size

\* detect_drift passed its check on exactly 50 records.
C19_WitnessAtMinimum ==
    \E t \in Threads : pc[t] = "d_proc" /\ Len(predictions_history) = MinRecords
====
